---- MODULE Spec2Model ----
(***************************************************************************)
(* Model of custom_components/humidifier_template/humidifier.py: the       *)
(* TemplateHumidifier entity.  The host runtime (template engine, script   *)
(* engine, state-change bus) is the environment: what a template renders   *)
(* to, which entities it references and which entity changes state are     *)
(* inputs chosen by the environment; everything the entity does with them  *)
(* is translated from the source.                                          *)
(***************************************************************************)
EXTENDS Integers, Sequences, FiniteSets, TLC

\* ------------------------------------------------------------------ bounds
\* Largest number of options (templates and scripts together) a modelled
\* configuration sets.
MaxOptions == 2

\* ------------------------------------------------------- program constants
DEFAULT_MIN_HUMIDITY == 40
DEFAULT_MAX_HUMIDITY == 70

\* The five template options in the order _update_state evaluates them.
TemplateOrder == <<"state", "target_humidity", "current_humidity", "mode", "action">>
Templates == {TemplateOrder[i] : i \in 1..Len(TemplateOrder)}

\* The four script options.
Scripts == {"set_target_humidity", "set_mode", "turn_on", "turn_off"}

\* ------------------------------------------------------------ Python values
\* A Python object is a record: ty is its type, n its numeric value (bool,
\* int, float; a float is modelled when it is integral), s its text (str),
\* and for a list n is its length.
PyNone == [ty |-> "NoneType", n |-> 0, s |-> ""]
PyBool(b) == [ty |-> "bool", n |-> IF b THEN 1 ELSE 0, s |-> ""]
PyInt(k) == [ty |-> "int", n |-> k, s |-> ""]
PyFloat(k) == [ty |-> "float", n |-> k, s |-> ""]
PyStr(t) == [ty |-> "str", n |-> 0, s |-> t]
PyEmptyList == [ty |-> "list", n |-> 0, s |-> ""]

IsNumber(v) == v.ty \in {"bool", "int", "float"}

\* Python's ==, as the `in (...)` tests of _update_state use it: numbers of
\* any numeric type compare by value, strings by text, and a number never
\* equals a string.
PyEq(a, b) ==
    IF IsNumber(a) /\ IsNumber(b) THEN a.n = b.n
    ELSE a.ty = b.ty /\ a.n = b.n /\ a.s = b.s

\* x in (t1, ..., tk)
PyIn(x, tuple) == \E i \in 1..Len(tuple) : PyEq(x, tuple[i])

\* bool(x)
PyTruth(v) ==
    CASE v.ty = "NoneType" -> FALSE
      [] v.ty = "str" -> v.s # ""
      [] OTHER -> v.n # 0

Whitespace == {" "}
Digits == <<"0", "1", "2", "3", "4", "5", "6", "7", "8", "9">>

RECURSIVE LStrip(_)
LStrip(t) ==
    IF Len(t) > 0 /\ SubSeq(t, 1, 1) \in Whitespace
    THEN LStrip(SubSeq(t, 2, Len(t)))
    ELSE t

RECURSIVE RStrip(_)
RStrip(t) ==
    IF Len(t) > 0 /\ SubSeq(t, Len(t), Len(t)) \in Whitespace
    THEN RStrip(SubSeq(t, 1, Len(t) - 1))
    ELSE t

\* str.strip()
Strip(t) == RStrip(LStrip(t))

IsDigit(c) == \E d \in 1..Len(Digits) : Digits[d] = c
DigitValue(c) == (CHOOSE d \in 1..Len(Digits) : Digits[d] = c) - 1

RECURSIVE AllDigits(_)
AllDigits(t) ==
    Len(t) = 0 \/ (IsDigit(SubSeq(t, 1, 1)) /\ AllDigits(SubSeq(t, 2, Len(t))))

RECURSIVE AllZeros(_)
AllZeros(t) ==
    Len(t) = 0 \/ (SubSeq(t, 1, 1) = "0" /\ AllZeros(SubSeq(t, 2, Len(t))))

RECURSIVE DecimalValue(_)
DecimalValue(t) ==
    IF Len(t) = 0 THEN 0
    ELSE 10 * DecimalValue(SubSeq(t, 1, Len(t) - 1))
         + DigitValue(SubSeq(t, Len(t), Len(t)))

\* Position of the first "." of t, or 0.
RECURSIVE DotAt(_, _)
DotAt(t, i) ==
    IF i > Len(t) THEN 0
    ELSE IF SubSeq(t, i, i) = "." THEN i
    ELSE DotAt(t, i + 1)

\* float(<str>): surrounding whitespace is ignored; the text must be a
\* decimal numeral (digits, optionally a point and a fraction).  Numerals
\* with a zero fraction are the ones modelled.  Anything else is ValueError.
ParseParts(whole, frac) ==
    IF Len(whole) > 0 /\ AllDigits(whole) /\ AllZeros(frac)
    THEN [exc |-> "", val |-> PyFloat(DecimalValue(whole))]
    ELSE [exc |-> "ValueError", val |-> PyNone]

ParseAt(u, d) ==
    IF d = 0 THEN ParseParts(u, "")
    ELSE ParseParts(SubSeq(u, 1, d - 1), SubSeq(u, d + 1, Len(u)))

ParseStripped(u) == ParseAt(u, DotAt(u, 1))

ParseFloat(t) == ParseStripped(Strip(t))

\* float(x): a number converts, a string is parsed (ValueError when it is
\* no numeral), and any other object (None, a list) is a TypeError.
ToFloat(v) ==
    CASE IsNumber(v) -> [exc |-> "", val |-> PyFloat(v.n)]
      [] v.ty = "str" -> ParseFloat(v.s)
      [] OTHER -> [exc |-> "TypeError", val |-> PyNone]

RECURSIVE NatToStr(_)
NatToStr(k) ==
    IF k < 10 THEN Digits[k + 1]
    ELSE NatToStr(k \div 10) \o Digits[(k % 10) + 1]

\* str(x); it never raises.
ToStr(v) ==
    CASE v.ty = "NoneType" -> "None"
      [] v.ty = "bool" -> (IF v.n = 1 THEN "True" ELSE "False")
      [] v.ty = "int" -> NatToStr(v.n)
      [] v.ty = "float" -> NatToStr(v.n) \o ".0"
      [] v.ty = "str" -> v.s
      [] OTHER -> "[]"

\* ------------------------------------------------------------ configuration
STATE_ON == "on"
STATE_OFF == "off"
DEFAULT_MODES == <<"normal", "eco", "away", "boost", "comfort", "home", "sleep", "auto", "baby">>

\* The mode lists a configuration that sets the modes option chooses from.
ModeLists == {<<>>, <<"eco">>}

\* The entities of the host whose state changes are modelled.
Entities == {"sensor.a", "sensor.b"}

\* The configurations PLATFORM_SCHEMA yields that the model explores: any
\* choice of templates, scripts and mode list that sets at most MaxOptions
\* options; an option that is not set takes the schema's default (the
\* humidity bounds always do).
OptionSets ==
    {o \in (SUBSET Templates) \X (SUBSET Scripts) \X ({DEFAULT_MODES} \cup ModeLists) :
        Cardinality(o[1]) + Cardinality(o[2]) + (IF o[3] = DEFAULT_MODES THEN 0 ELSE 1)
            <= MaxOptions}
Configs ==
    {[templates |-> o[1], scripts |-> o[2], modes |-> o[3],
      min_humidity |-> DEFAULT_MIN_HUMIDITY, max_humidity |-> DEFAULT_MAX_HUMIDITY] :
        o \in OptionSets}

\* __init__: the attributes start at None, _state at False, and the MODES
\* feature is set when the mode list is truthy (non-empty).
NewEntity(c) ==
    [state |-> PyBool(FALSE),
     target_humidity |-> PyNone,
     current_humidity |-> PyNone,
     mode |-> PyNone,
     action |-> PyNone,
     supported_features |-> IF Len(c.modes) > 0 THEN {"MODES"} ELSE {}]

\* ------------------------------------------------------------- the templates
\* What Template.async_render gives: TemplateError, or a result object.
RenderFailed == [err |-> TRUE, val |-> PyNone]
Rendered(v) == [err |-> FALSE, val |-> v]
\* The input of a template that is not configured (never rendered).
NoTemplate == [err |-> TRUE, val |-> PyEmptyList]

OnValues ==
    <<PyBool(TRUE), PyStr("True"), PyStr("true"), PyStr("on"), PyStr("On"),
      PyStr("ON"), PyStr(STATE_ON), PyInt(1), PyStr("1")>>
OffValues ==
    <<PyBool(FALSE), PyStr("False"), PyStr("false"), PyStr("off"), PyStr("Off"),
      PyStr("OFF"), PyStr(STATE_OFF), PyInt(0), PyStr("0")>>

\* A state block without its second tuple: every result that is not in the
\* first is taken by its truthiness.
StateOfWithoutOffValues(result) ==
    IF PyIn(result, OnValues) THEN PyBool(TRUE)
    ELSE PyBool(PyTruth(result))

\* The value _update_state gives _state for a rendered state result.
StateOf(result) ==
    IF PyIn(result, OnValues) THEN PyBool(TRUE)
    ELSE IF PyIn(result, OffValues) THEN PyBool(FALSE)
    ELSE PyBool(PyTruth(result))

\* One run of _update_state is threaded through a record: obj the entity's
\* attributes, exc the exception that is propagating ("" when none), ran the
\* templates whose render was called.
StateBlock(c, st, r) ==
    IF "state" \notin c.templates THEN st
    ELSE IF r.err THEN [st EXCEPT !.ran = @ \cup {"state"}]
    ELSE [st EXCEPT !.obj.state = StateOf(r.val), !.ran = @ \cup {"state"}]

\* What a humidity block does with float()'s outcome f: store the number,
\* log a ValueError, let any other exception go.
StoreFloat(st, t, f) ==
    CASE f.exc = "" -> [st EXCEPT !.obj[t] = f.val, !.ran = @ \cup {t}]
      [] f.exc = "ValueError" -> [st EXCEPT !.ran = @ \cup {t}]
      [] OTHER -> [st EXCEPT !.exc = f.exc, !.ran = @ \cup {t}]

\* A humidity block that clears the attribute when the result is no numeral.
FloatBlockClearingOnValueError(c, st, t, r) ==
    IF t \notin c.templates THEN st
    ELSE IF r.err THEN [st EXCEPT !.ran = @ \cup {t}]
    ELSE IF r.val.ty = "str" /\ ToFloat(r.val).exc = "ValueError"
         THEN [st EXCEPT !.obj[t] = PyNone, !.ran = @ \cup {t}]
         ELSE StoreFloat(st, t, ToFloat(r.val))

\* The target and current humidity blocks: float(render()), catching
\* TemplateError and ValueError only.
FloatBlock(c, st, t, r) ==
    IF t \notin c.templates THEN st
    ELSE IF r.err THEN [st EXCEPT !.ran = @ \cup {t}]
    ELSE StoreFloat(st, t, ToFloat(r.val))

ModeBlock(c, st, r) ==
    IF "mode" \notin c.templates THEN st
    ELSE IF r.err THEN [st EXCEPT !.ran = @ \cup {"mode"}]
    ELSE [st EXCEPT !.obj.mode = PyStr(Strip(ToStr(r.val))), !.ran = @ \cup {"mode"}]

ActionBlock(c, st, r) ==
    IF "action" \notin c.templates THEN st
    ELSE IF r.err THEN [st EXCEPT !.ran = @ \cup {"action"}]
    ELSE [st EXCEPT !.obj.action = PyStr(ToStr(r.val)), !.ran = @ \cup {"action"}]

\* The try block of template t.
Block(c, st, t, r) ==
    CASE t = "state" -> StateBlock(c, st, r)
      [] t = "mode" -> ModeBlock(c, st, r)
      [] t = "action" -> ActionBlock(c, st, r)
      [] OTHER -> FloatBlock(c, st, t, r)

\* The blocks of TemplateOrder[i..5] in order; an exception no block
\* catches ends the method there.
RECURSIVE RunBlocks(_, _, _, _)
RunBlocks(c, st, r, i) ==
    IF i > Len(TemplateOrder) \/ st.exc # "" THEN st
    ELSE RunBlocks(c, Block(c, st, TemplateOrder[i], r[TemplateOrder[i]]), r, i + 1)

\* _update_state
UpdateState(c, obj, r) == RunBlocks(c, [obj |-> obj, exc |-> "", ran |-> {}], r, 1)

\* async_write_ha_state is reached when no exception left _update_state.
ThenWrite(u) ==
    [obj |-> u.obj, exc |-> u.exc, ran |-> u.ran, writes |-> IF u.exc = "" THEN 1 ELSE 0]

\* _async_update_state, the callback: _update_state, then
\* async_write_ha_state.
AsyncUpdateState(c, obj, r) == ThenWrite(UpdateState(c, obj, r))

\* _get_template_entities: the union of info.entities over the configured
\* templates whose async_render_to_info did not raise TemplateError.
GetTemplateEntities(c, info, infoErr) ==
    UNION {info[t] : t \in c.templates \ infoErr}

\* ------------------------------------------------------- control operations
NoScriptCall == << >>
ScriptCall(script, var, value) == <<[script |-> script, var |-> var, value |-> value]>>

\* An async_set_humidity that writes optimistically whether or not the
\* script is configured.
SetHumidityIgnoringScript(c, obj, humidity) ==
    [obj |-> [obj EXCEPT !.target_humidity = humidity], writes |-> 1,
     script_calls |-> NoScriptCall]

\* async_set_humidity
SetHumidity(c, obj, humidity) ==
    IF "set_target_humidity" \in c.scripts
    THEN [obj |-> obj, writes |-> 0,
          script_calls |-> ScriptCall("set_target_humidity", "humidity", humidity)]
    ELSE [obj |-> [obj EXCEPT !.target_humidity = humidity], writes |-> 1,
          script_calls |-> NoScriptCall]

\* async_set_mode
SetMode(c, obj, m) ==
    IF "set_mode" \in c.scripts
    THEN [obj |-> obj, writes |-> 0, script_calls |-> ScriptCall("set_mode", "mode", m)]
    ELSE [obj |-> [obj EXCEPT !.mode = m], writes |-> 1, script_calls |-> NoScriptCall]

\* async_turn_on
TurnOn(c, obj) ==
    IF "turn_on" \in c.scripts
    THEN [obj |-> obj, writes |-> 0, script_calls |-> ScriptCall("turn_on", "", PyNone)]
    ELSE [obj |-> [obj EXCEPT !.state = PyBool(TRUE)], writes |-> 1,
          script_calls |-> NoScriptCall]

\* An async_turn_off whose fallback was copied from async_turn_on unchanged.
TurnOffSettingOn(c, obj) ==
    IF "turn_off" \in c.scripts
    THEN [obj |-> obj, writes |-> 0, script_calls |-> ScriptCall("turn_off", "", PyNone)]
    ELSE [obj |-> [obj EXCEPT !.state = PyBool(TRUE)], writes |-> 1,
          script_calls |-> NoScriptCall]

\* async_turn_off
TurnOff(c, obj) ==
    IF "turn_off" \in c.scripts
    THEN [obj |-> obj, writes |-> 0, script_calls |-> ScriptCall("turn_off", "", PyNone)]
    ELSE [obj |-> [obj EXCEPT !.state = PyBool(FALSE)], writes |-> 1,
          script_calls |-> NoScriptCall]

\* ------------------------------------------------------------------- inputs
\* The results the environment lets the templates render to, by the kind
\* of template.  AllStateResults is every value the state block
\* distinguishes and some it does not.
StateResults ==
    {Rendered(PyStr("off")), Rendered(PyStr("unavailable")), RenderFailed}
AllStateResults ==
    {Rendered(OnValues[i]) : i \in 1..Len(OnValues)}
    \cup {Rendered(OffValues[i]) : i \in 1..Len(OffValues)}
    \cup {Rendered(PyStr("unavailable")), Rendered(PyStr("unknown")), Rendered(PyStr("")),
          Rendered(PyStr("yes")), Rendered(PyStr("no")), Rendered(PyStr(" on")),
          Rendered(PyNone), Rendered(PyInt(2)), Rendered(PyFloat(1)), Rendered(PyFloat(0)),
          Rendered(PyFloat(3)), Rendered(PyEmptyList), RenderFailed}
HumidityResults ==
    {Rendered(PyStr(" 95.0 ")), Rendered(PyStr("unknown")), Rendered(PyNone), RenderFailed}
TextResults ==
    {Rendered(PyStr(" turbo ")), Rendered(PyNone), RenderFailed}

Results == [state |-> StateResults, humidity |-> HumidityResults, text |-> TextResults]
WideResults == [state |-> AllStateResults, humidity |-> HumidityResults, text |-> TextResults]
FewResults ==
    [state |-> {Rendered(PyStr("on")), RenderFailed},
     humidity |-> {Rendered(PyInt(55)), Rendered(PyNone)},
     text |-> {Rendered(PyStr(" turbo ")), RenderFailed}]

ResultsOf(t, table) ==
    CASE t = "state" -> table.state
      [] t \in {"target_humidity", "current_humidity"} -> table.humidity
      [] OTHER -> table.text

\* One render result per configured template.
ResultChoices(c, t, table) == IF t \in c.templates THEN ResultsOf(t, table) ELSE {NoTemplate}
RenderInputs(c, table) ==
    {[state |-> a, target_humidity |-> b, current_humidity |-> d, mode |-> m, action |-> x] :
        a \in ResultChoices(c, "state", table),
        b \in ResultChoices(c, "target_humidity", table),
        d \in ResultChoices(c, "current_humidity", table),
        m \in ResultChoices(c, "mode", table),
        x \in ResultChoices(c, "action", table)}

\* The humidities and modes the control operations are called with.
HumidityArgs == {PyInt(50), PyInt(90)}
ModeArgs == {PyStr("eco"), PyStr("turbo")}

\* -------------------------------------------------------------------- state
\* cfg      the parsed configuration (fixed at construction)
\* self     the entity's attributes
\* added    async_added_to_hass has run
\* tracked  the entities registered with async_track_state_change_event
\* refs     the entities each configured template references now (host state)
\* last     the last operation: its name and inputs, the number of
\*          async_write_ha_state calls and the script runs it made, the
\*          templates it rendered and the exception that left it
VARIABLES cfg, self, added, tracked, refs, last
vars == <<cfg, self, added, tracked, refs, last>>

NoResults ==
    [state |-> NoTemplate, target_humidity |-> NoTemplate, current_humidity |-> NoTemplate,
     mode |-> NoTemplate, action |-> NoTemplate]

Op(name, arg, entity, referenced, results, ran, exc, writes, script_calls) ==
    [op |-> name, arg |-> arg, entity |-> entity, referenced |-> referenced,
     results |-> results, ran |-> ran, exc |-> exc, writes |-> writes,
     script_calls |-> script_calls]

\* The entities some configured template references now.
Referenced == UNION {refs[t] : t \in cfg.templates}

RefChoices(c, t, choices) == IF t \in c.templates THEN choices ELSE {{}}
RefsOf(c, choices) ==
    {[state |-> a, target_humidity |-> b, current_humidity |-> d, mode |-> m, action |-> x] :
        a \in RefChoices(c, "state", choices),
        b \in RefChoices(c, "target_humidity", choices),
        d \in RefChoices(c, "current_humidity", choices),
        m \in RefChoices(c, "mode", choices),
        x \in RefChoices(c, "action", choices)}

Constructed(configs, choices) ==
    /\ cfg \in configs
    /\ self = NewEntity(cfg)
    /\ added = FALSE
    /\ tracked = {}
    /\ refs \in RefsOf(cfg, choices)
    /\ last = Op("init", PyNone, "", FALSE, NoResults, {}, "", 0, NoScriptCall)

Recomputed(name, e, r, u, writes) ==
    /\ self' = u.obj
    /\ last' = Op(name, PyNone, e, e \in Referenced, r, u.ran, u.exc, writes, NoScriptCall)

\* async_added_to_hass: register the listener for the entities the templates
\* reference now, then run the initial _update_state (no state write).
AddedToHassWith(table, infoErrs) ==
    /\ ~added
    /\ \E infoErr \in infoErrs : tracked' = GetTemplateEntities(cfg, refs, infoErr)
    /\ \E r \in RenderInputs(cfg, table) :
        Recomputed("added", "", r, UpdateState(cfg, self, r), 0)
    /\ added' = TRUE
    /\ UNCHANGED <<cfg, refs>>

Notified(e, r, u) == Recomputed("notify", e, r, u, u.writes)

\* A tracked entity changes state: the host calls _async_update_state.
NotifyWith(table) ==
    /\ added
    /\ \E e \in tracked, r \in RenderInputs(cfg, table) :
        Notified(e, r, AsyncUpdateState(cfg, self, r))
    /\ UNCHANGED <<cfg, added, tracked, refs>>

\* An entity that is not tracked changes state: the entity is not called.
UntrackedChange ==
    /\ added
    /\ \E e \in Entities \ tracked :
        last' = Op("untracked", PyNone, e, e \in Referenced, NoResults, {}, "", 0,
                   NoScriptCall)
    /\ UNCHANGED <<cfg, self, added, tracked, refs>>

\* The host state moves so that a template references other entities.
RefsChange ==
    /\ \E t \in cfg.templates, es \in SUBSET Entities :
        /\ es # refs[t]
        /\ refs' = [refs EXCEPT ![t] = es]
    /\ UNCHANGED <<cfg, self, added, tracked, last>>

Control(name, arg, res) ==
    /\ self' = res.obj
    /\ last' = Op(name, arg, "", FALSE, NoResults, {}, "", res.writes, res.script_calls)
    /\ UNCHANGED <<cfg, added, tracked, refs>>

AsyncSetHumidity ==
    /\ added
    /\ \E h \in HumidityArgs : Control("set_humidity", h, SetHumidity(cfg, self, h))

AsyncSetMode ==
    /\ added
    /\ \E m \in ModeArgs : Control("set_mode", m, SetMode(cfg, self, m))

AsyncTurnOn ==
    /\ added
    /\ Control("turn_on", PyNone, TurnOn(cfg, self))

AsyncTurnOff ==
    /\ added
    /\ Control("turn_off", PyNone, TurnOff(cfg, self))

ControlOps ==
    \/ AsyncSetHumidity
    \/ AsyncSetMode
    \/ AsyncTurnOn
    \/ AsyncTurnOff

\* --------------------------------------------------------- specifications
\* Spec: every configuration within the bounds; each configured template
\* references sensor.a throughout and the entity gathering succeeds.
Init == Constructed(Configs, {{"sensor.a"}})
AddedToHass == AddedToHassWith(Results, {{}})
Notify == NotifyWith(Results)
Next ==
    \/ AddedToHass
    \/ Notify
    \/ ControlOps
Spec == Init /\ [][Next]_vars

\* SpecState: the state template alone, over every state result.
StateConfigs == {c \in Configs : c.templates = {"state"}}
InitState == Constructed(StateConfigs, {{"sensor.a"}})
AddedToHassState == AddedToHassWith(WideResults, {{}})
NotifyState == NotifyWith(WideResults)
NextState ==
    \/ AddedToHassState
    \/ NotifyState
    \/ ControlOps
SpecState == InitState /\ [][NextState]_vars

\* SpecTrack: the subscription.  What the templates reference changes with
\* the host's state, and the entity gathering may fail for any template.
TrackConfigs == {c \in Configs : c.scripts = {} /\ c.modes = DEFAULT_MODES}
InitTrack == Constructed(TrackConfigs, SUBSET Entities)
AddedToHassTrack == AddedToHassWith(FewResults, SUBSET cfg.templates)
NotifyTrack == NotifyWith(FewResults)
NextTrack ==
    \/ AddedToHassTrack
    \/ NotifyTrack
    \/ UntrackedChange
    \/ RefsChange
SpecTrack == InitTrack /\ [][NextTrack]_vars

\* ------------------------------------------------------------------ claims
HumidityTemplates == {"target_humidity", "current_humidity"}
Recomputes == {"added", "notify"}

\* The evaluation of template t fails on render result r: the render raised,
\* or the result cannot be turned into the attribute's type.
EvalFails(t, r) == r.err \/ (t \in HumidityTemplates /\ ToFloat(r.val).exc # "")

\* is_on as the table of C7 gives it, by exact value.
TrueResults ==
    {PyBool(TRUE), PyInt(1), PyStr("True"), PyStr("true"), PyStr("on"), PyStr("On"),
     PyStr("ON"), PyStr("1")}
FalseResults ==
    {PyBool(FALSE), PyInt(0), PyStr("False"), PyStr("false"), PyStr("off"), PyStr("Off"),
     PyStr("OFF"), PyStr("0")}
IsOnFor(v) ==
    IF v \in TrueResults THEN TRUE
    ELSE IF v \in FalseResults THEN FALSE
    ELSE PyTruth(v)

\* The attribute value a successfully evaluated template t stands for.
Coerced(t, v) ==
    CASE t = "state" -> PyBool(IsOnFor(v))
      [] t \in HumidityTemplates -> ToFloat(v).val
      [] t = "mode" -> PyStr(Strip(ToStr(v)))
      [] OTHER -> PyStr(ToStr(v))

\* Control operation, its script option, and the variable the script gets.
ControlTable ==
    {<<"set_humidity", "set_target_humidity", "humidity">>,
     <<"set_mode", "set_mode", "mode">>,
     <<"turn_on", "turn_on", "">>,
     <<"turn_off", "turn_off", "">>}

\* The scripts whose absence makes an attribute optimistically writable.
ScriptsOf(t) ==
    CASE t = "state" -> {"turn_on", "turn_off"}
      [] t = "target_humidity" -> {"set_target_humidity"}
      [] t = "mode" -> {"set_mode"}
      [] OTHER -> {}
Writable == {"state", "target_humidity", "mode"}

\* C1: in a notification's recompute, a template whose evaluation fails
\* (render error, or a result that cannot be coerced) leaves its attribute
\* at its previous value, and no exception leaves _update_state.
C1_FailureKeepsValueAndStaysInside ==
    [][last'.op = "notify" =>
        /\ last'.exc = ""
        /\ \A t \in cfg.templates :
            EvalFails(t, last'.results[t]) => self'[t] = self[t]]_vars

\* C2: every notification renders every configured template and writes the
\* entity state exactly once.
C2_EveryNotificationRendersAllAndWrites ==
    last.op = "notify" => (last.ran = cfg.templates /\ last.writes = 1)

\* C3: a control operation whose script is configured runs that script once
\* with the requested value, changes no attribute and writes no state; an
\* attribute whose scripts are all configured changes only in a recompute.
C3_ScriptDelegation ==
    [][/\ \A row \in ControlTable :
            (last'.op = row[1] /\ row[2] \in cfg.scripts) =>
                /\ last'.script_calls =
                       <<[script |-> row[2], var |-> row[3], value |-> last'.arg]>>
                /\ last'.writes = 0
                /\ self' = self
       /\ \A t \in Writable :
            (ScriptsOf(t) \subseteq cfg.scripts /\ self'[t] # self[t]) =>
                last'.op \in Recomputes]_vars

\* A state in which async_set_humidity has just run its script and left the
\* target humidity alone.
C3_Witness ==
    /\ last.op = "set_humidity"
    /\ "set_target_humidity" \in cfg.scripts
    /\ Len(last.script_calls) = 1
    /\ self.target_humidity # last.arg

\* C4: a control operation whose script is not configured runs no script,
\* sets its own attribute to the requested value (True for turn_on, False
\* for turn_off), changes nothing else and writes the state exactly once.
C4_OptimisticFallback ==
    [][/\ (last'.op = "set_humidity" /\ "set_target_humidity" \notin cfg.scripts) =>
            /\ self' = [self EXCEPT !.target_humidity = last'.arg]
            /\ last'.script_calls = << >> /\ last'.writes = 1
       /\ (last'.op = "set_mode" /\ "set_mode" \notin cfg.scripts) =>
            /\ self' = [self EXCEPT !.mode = last'.arg]
            /\ last'.script_calls = << >> /\ last'.writes = 1
       /\ (last'.op = "turn_on" /\ "turn_on" \notin cfg.scripts) =>
            /\ self' = [self EXCEPT !.state = PyBool(TRUE)]
            /\ last'.script_calls = << >> /\ last'.writes = 1
       /\ (last'.op = "turn_off" /\ "turn_off" \notin cfg.scripts) =>
            /\ self' = [self EXCEPT !.state = PyBool(FALSE)]
            /\ last'.script_calls = << >> /\ last'.writes = 1]_vars

\* A state in which async_turn_off, with no script, has just turned off an
\* entity whose mode was set optimistically before.
C4_Witness ==
    /\ last.op = "turn_off"
    /\ "turn_off" \notin cfg.scripts
    /\ self.state = PyBool(FALSE)
    /\ self.mode = PyStr("eco")
    /\ last.writes = 1

\* C5: once the entity is added, every entity a configured template
\* references is tracked, so a state change of a referenced entity is never
\* one the entity is not notified of.
C5_ReferencedEntitiesAreTracked ==
    added =>
        /\ Referenced \subseteq tracked
        /\ last.op = "untracked" => ~last.referenced

\* C6: in one recompute every configured template is rendered, and each one
\* whose evaluation succeeds has its attribute updated, whatever happened to
\* the others.
C6_TemplatesAreIndependent ==
    last.op \in Recomputes =>
        \A t \in cfg.templates :
            /\ t \in last.ran
            /\ ~EvalFails(t, last.results[t]) => self[t] = Coerced(t, last.results[t].val)

\* C7: is_on is always a boolean, False after construction, and after a
\* recompute whose state template rendered r it is True for r among True, 1,
\* "True", "true", "on", "On", "ON", "1", False for r among False, 0,
\* "False", "false", "off", "Off", "OFF", "0", and the truthiness of r
\* otherwise.
C7_IsOnTable ==
    /\ self.state \in {PyBool(TRUE), PyBool(FALSE)}
    /\ last.op = "init" => self.state = PyBool(FALSE)
    /\ (last.op \in Recomputes /\ "state" \in cfg.templates /\ ~last.results["state"].err) =>
            self.state = PyBool(IsOnFor(last.results["state"].val))

\* A state in which the state template has just rendered "unavailable" and
\* the entity is on.
C7_Witness ==
    /\ last.op = "notify"
    /\ last.results["state"] = Rendered(PyStr("unavailable"))
    /\ self.state = PyBool(TRUE)

\* The part of C8 about attributes without a template: a recompute leaves
\* them alone, and they change only by an optimistic write, to the value
\* written.
UntemplatedFollowWrites ==
    /\ last'.op \in Recomputes => \A t \in Templates \ cfg.templates : self'[t] = self[t]
    /\ \A t \in Writable \ cfg.templates :
        self'[t] # self[t] =>
            \E row \in ControlTable :
                /\ last'.op = row[1]
                /\ row[2] \in ScriptsOf(t) \ cfg.scripts
                /\ self'[t] = (CASE row[1] = "turn_on" -> PyBool(TRUE)
                                 [] row[1] = "turn_off" -> PyBool(FALSE)
                                 [] OTHER -> last'.arg)

\* C8 as claimed: attributes without a template follow the optimistic
\* writes, and when a notification follows an optimistic write to an
\* attribute with a template and no script, the attribute then equals the
\* template's coerced result.
C8_NotificationOverwritesOptimisticWrite ==
    [][/\ UntemplatedFollowWrites
       /\ last'.op = "notify" =>
            \A t \in (Writable \cap cfg.templates) :
                (\E row \in ControlTable :
                    /\ last.op = row[1]
                    /\ row[2] \in ScriptsOf(t) \ cfg.scripts) =>
                    /\ ~EvalFails(t, last'.results[t])
                    /\ self'[t] = Coerced(t, last'.results[t].val)]_vars

\* C8 amended: attributes without a template follow the optimistic writes;
\* after a notification an attribute with a template equals the template's
\* coerced result if the recompute evaluated that template successfully, and
\* otherwise (its evaluation failed, or the recompute ended before reaching
\* it) still has the value it had, the optimistic write included.
C8_NotificationOverwritesWhenEvaluated ==
    [][/\ UntemplatedFollowWrites
       /\ last'.op = "notify" =>
            \A t \in cfg.templates :
                IF t \in last'.ran /\ ~EvalFails(t, last'.results[t])
                THEN self'[t] = Coerced(t, last'.results[t].val)
                ELSE self'[t] = self[t]]_vars

\* A state in which a notification whose target humidity result was no
\* numeral has left an optimistically written target humidity in place.
C8_Witness ==
    /\ last.op = "notify"
    /\ "target_humidity" \in cfg.templates
    /\ "set_target_humidity" \notin cfg.scripts
    /\ last.results["target_humidity"] = Rendered(PyStr("unknown"))
    /\ self.target_humidity = PyInt(50)

\* C9: the target humidity is None or a number within the configured bounds.
C9_TargetHumidityWithinBounds ==
    \/ self.target_humidity = PyNone
    \/ /\ IsNumber(self.target_humidity)
       /\ cfg.min_humidity <= self.target_humidity.n
       /\ self.target_humidity.n <= cfg.max_humidity

\* C10: the mode is None or one of the configured modes, and the MODES
\* feature is set exactly when the mode list is not empty.
C10_ModeIsAvailable ==
    /\ \/ self.mode = PyNone
       \/ /\ self.mode.ty = "str"
          /\ \E i \in 1..Len(cfg.modes) : cfg.modes[i] = self.mode.s
    /\ ("MODES" \in self.supported_features) <=> (Len(cfg.modes) > 0)
====
